---- MODULE Spec2Model ----
(***************************************************************************)
(* A model of pycrystem/utils/expt_utils.py: the direct-beam refinement    *)
(* (refine_beam_position), dead-pixel repair (remove_dead), the naive      *)
(* radial average (radial_average) and the polar reprojection              *)
(* (reproject_polar).                                                      *)
(*                                                                         *)
(* Arrays are functions from pixel coordinates <<row, col>> (0-based) to   *)
(* values.  Intensities are integers; means and centres of mass are exact  *)
(* rationals [n, d] in lowest terms, NaN is [n |-> 0, d |-> 0].            *)
(***************************************************************************)
EXTENDS Integers, Sequences, FiniteSets, TLC

\* ---------------------------------------------------------------- bounds
MaxH == 3        \* largest image height
MaxW == 4        \* largest image width
BigH == 5        \* largest height of a single-pixel image
BigW == 5        \* largest width of a single-pixel image
MaxVal == 2      \* largest pixel intensity
MaxBright == 2   \* largest number of non-zero pixels of an input image
MaxRadius == 2   \* largest search radius
MaxIters == 3    \* the count of loop-body executions saturates here
MaxDead == 2     \* longest deadpixels list
MaxD == 1        \* largest half-width d of the averaging window

VARIABLES
    shape,       \* z.shape, <<height, width>>
    z,           \* the image argument
    pc,          \* position in the running function
    exc,         \* "" or the name of the exception raised
    ret,         \* the returned value, <<>> before the return
    maskClosed,  \* whether circular_mask counts the pixels at distance = radius
    start, radius,                \* refine_beam_position arguments
    c_int, mask, z_tmp, ztmp, c,  \* refine_beam_position locals
    iters,       \* number of executions of the while body (saturating)
    deadpixels, deadvalue, d,     \* remove_dead arguments
    k,           \* remove_dead: index of the next entry of deadpixels
    z0,          \* remove_dead: the array as it was when the call began
    center,      \* radial_average argument
    useCy,       \* _USE_CY_RADIAL_PROFILE
    origin, jacobian, dr          \* reproject_polar arguments

refineVars == <<maskClosed, start, radius, c_int, mask, z_tmp, ztmp, c, iters>>

deadVars == <<deadpixels, deadvalue, d, k, z0>>

radialVars == <<center, useCy>>

polarVars == <<origin, jacobian, dr>>

vars == <<shape, z, pc, exc, ret, refineVars, deadVars, radialVars, polarVars>>

\* ------------------------------------------------------------ arithmetic
Abs(x) == IF x < 0 THEN -x ELSE x

Min(a, b) == IF a < b THEN a ELSE b

Max(a, b) == IF a > b THEN a ELSE b

RECURSIVE Gcd(_, _)
Gcd(a, b) == IF b = 0 THEN a ELSE Gcd(b, a % b)

NaN == [n |-> 0, d |-> 0]

\* the quotient n / d of two integers as a float would hold it: NaN for 0/0
Rat(num, den) ==
    IF den = 0 THEN NaN
    ELSE LET g == Gcd(Abs(num), Abs(den))
             s == IF den < 0 THEN -1 ELSE 1
         IN  [n |-> s * (num \div g), d |-> s * (den \div g)]

FromInt(v) == [n |-> v, d |-> 1]

\* np.rint of the quotient num / den (num >= 0, den > 0): round half to even
RInt(num, den) ==
    LET q == num \div den
        r == num % den
    IN  IF 2 * r < den THEN q
        ELSE IF 2 * r > den THEN q + 1
        ELSE IF q % 2 = 0 THEN q ELSE q + 1

RECURSIVE SumOver(_, _)
SumOver(S, f) ==
    IF S = {} THEN 0
    ELSE LET p == CHOOSE q \in S : TRUE
         IN  f[p] + SumOver(S \ {p}, f)

\* ---------------------------------------------------------------- arrays
Pixels(sh) == (0 .. sh[1] - 1) \X (0 .. sh[2] - 1)

ArrMax(a) == CHOOSE v \in {a[p] : p \in DOMAIN a} :
                 \A q \in DOMAIN a : a[q] <= v

\* np.where(a == v), as the set of coordinates
Where(a, v) == {p \in DOMAIN a : a[p] = v}

\* z * mask
Times(a, m) == [p \in DOMAIN a |-> IF m[p] THEN a[p] ELSE 0]

\* the disk of the given radius around center, as a boolean image
circular_mask(sh, rad, cen) ==
    [p \in Pixels(sh) |->
        LET d2 == (p[1] - cen[1]) * (p[1] - cen[1])
                  + (p[2] - cen[2]) * (p[2] - cen[2])
        IN  IF maskClosed THEN d2 <= rad * rad ELSE d2 < rad * rad]

\* np.rint([np.average(maxes[0]), np.average(maxes[1])]).astype(int)
RoundedCentroid(S) ==
    <<RInt(SumOver(S, [p \in S |-> p[1]]), Cardinality(S)),
      RInt(SumOver(S, [p \in S |-> p[2]]), Cardinality(S))>>

center_of_mass_swapped(a) ==
    LET D == DOMAIN a
        tot == SumOver(D, a)
    IN  <<Rat(SumOver(D, [p \in D |-> p[2] * a[p]]), tot),
          Rat(SumOver(D, [p \in D |-> p[1] * a[p]]), tot)>>

\* ndi.measurements.center_of_mass
center_of_mass(a) ==
    LET D == DOMAIN a
        tot == SumOver(D, a)
    IN  <<Rat(SumOver(D, [p \in D |-> p[1] * a[p]]), tot),
          Rat(SumOver(D, [p \in D |-> p[2] * a[p]]), tot)>>

\* ---------------------------------------------------------------- inputs
Shapes == (1 .. MaxH) \X (1 .. MaxW)

RECURSIVE SubsetsUpTo(_, _)
SubsetsUpTo(S, m) ==
    IF m = 0 THEN {{}}
    ELSE LET prev == SubsetsUpTo(S, m - 1)
         IN  prev \cup {T \cup {p} : T \in prev, p \in S}

\* images with at most MaxBright non-zero pixels, each in 1 .. MaxVal
Images(sh) ==
    UNION {{[p \in Pixels(sh) |-> IF p \in S THEN v[p] ELSE 0] :
               v \in [S -> 1 .. MaxVal]} :
           S \in SubsetsUpTo(Pixels(sh), MaxBright)}

\* the variables of the functions that are not running
RefineUnused ==
    /\ maskClosed = FALSE /\ start = <<>> /\ radius = 0 /\ c_int = 0
    /\ mask = <<>> /\ z_tmp = <<>> /\ ztmp = <<>> /\ c = <<>> /\ iters = 0

DeadUnused ==
    deadpixels = <<>> /\ deadvalue = "" /\ d = 0 /\ k = 0 /\ z0 = <<>>

RadialUnused == center = <<>> /\ useCy = FALSE

PolarUnused == origin = <<>> /\ jacobian = FALSE /\ dr = <<>>

\* ------------------------------------------------- refine_beam_position
\* the region the while test and the search for maximal pixels read
LoopRegion_rebuilt == IF ztmp = <<>> THEN z_tmp ELSE ztmp

LoopRegion == z_tmp

InitRefine ==
    /\ shape \in Shapes
    /\ z \in Images(shape)
    /\ start \in Pixels(shape)
    /\ radius \in 0 .. MaxRadius
    /\ maskClosed \in BOOLEAN
    /\ pc = "refine_init"
    /\ exc = ""
    /\ ret = <<>>
    /\ c_int = 0
    /\ mask = <<>>
    /\ z_tmp = <<>>
    /\ ztmp = <<>>
    /\ c = <<>>
    /\ iters = 0
    /\ DeadUnused /\ RadialUnused /\ PolarUnused

\* lines 397-399
RefineInit ==
    /\ pc = "refine_init"
    /\ c_int' = z[start]
    /\ mask' = circular_mask(shape, radius, start)
    /\ z_tmp' = Times(z, circular_mask(shape, radius, start))
    /\ pc' = "refine_if"
    /\ UNCHANGED <<deadVars, radialVars, polarVars>>
    /\ UNCHANGED <<shape, z, exc, ret, maskClosed, start, radius, ztmp, c,
                   iters>>

\* lines 402-407 and 409-415: recentre on the maximal pixels of region
Recentre(region) ==
    LET maxes == Where(region, ArrMax(region))
        cn == RoundedCentroid(maxes)
    IN  /\ c' = cn
        /\ c_int' = z[cn]
        /\ mask' = circular_mask(shape, radius, cn)
        /\ ztmp' = Times(z, circular_mask(shape, radius, cn))

\* line 401, taken
RefineIfTaken ==
    /\ pc = "refine_if"
    /\ c_int = ArrMax(z_tmp)
    /\ Recentre(z_tmp)
    /\ pc' = "refine_while"
    /\ UNCHANGED <<deadVars, radialVars, polarVars>>
    /\ UNCHANGED <<shape, z, exc, ret, maskClosed, start, radius, z_tmp,
                   iters>>

\* line 401, not taken
RefineIfSkipped ==
    /\ pc = "refine_if"
    /\ c_int # ArrMax(z_tmp)
    /\ pc' = "refine_while"
    /\ UNCHANGED <<deadVars, radialVars, polarVars>>
    /\ UNCHANGED <<shape, z, exc, ret, maskClosed, start, radius, c_int,
                   mask, z_tmp, ztmp, c, iters>>

\* line 408 true, then lines 409-415
RefineLoopBody ==
    /\ pc = "refine_while"
    /\ c_int < ArrMax(LoopRegion)
    /\ Recentre(LoopRegion)
    /\ iters' = Min(iters + 1, MaxIters)
    /\ pc' = "refine_while"
    /\ UNCHANGED <<deadVars, radialVars, polarVars>>
    /\ UNCHANGED <<shape, z, exc, ret, maskClosed, start, radius, z_tmp>>

RefineLoopExit_capped ==
    /\ pc = "refine_while"
    /\ ~(c_int < ArrMax(LoopRegion)) \/ iters >= 2
    /\ pc' = "refine_com"
    /\ UNCHANGED <<deadVars, radialVars, polarVars>>
    /\ UNCHANGED <<shape, z, exc, ret, maskClosed, start, radius, c_int,
                   mask, z_tmp, ztmp, c, iters>>

\* line 408 false
RefineLoopExit ==
    /\ pc = "refine_while"
    /\ ~(c_int < ArrMax(LoopRegion))
    /\ pc' = "refine_com"
    /\ UNCHANGED <<deadVars, radialVars, polarVars>>
    /\ UNCHANGED <<shape, z, exc, ret, maskClosed, start, radius, c_int,
                   mask, z_tmp, ztmp, c, iters>>

\* lines 419-421
RefineReturn ==
    /\ pc = "refine_com"
    /\ ztmp # <<>>
    /\ ret' = center_of_mass(ztmp)
    /\ pc' = "done"
    /\ UNCHANGED <<deadVars, radialVars, polarVars>>
    /\ UNCHANGED <<shape, z, exc, maskClosed, start, radius, c_int, mask,
                   z_tmp, ztmp, c, iters>>

\* line 419 when neither line 407 nor line 415 has run: ztmp is unbound
RefineUnbound ==
    /\ pc = "refine_com"
    /\ ztmp = <<>>
    /\ exc' = "UnboundLocalError"
    /\ pc' = "raised"
    /\ UNCHANGED <<deadVars, radialVars, polarVars>>
    /\ UNCHANGED <<shape, z, ret, maskClosed, start, radius, c_int, mask,
                   z_tmp, ztmp, c, iters>>

NextRefine ==
    \/ RefineInit
    \/ RefineIfTaken
    \/ RefineIfSkipped
    \/ RefineLoopBody
    \/ RefineLoopExit
    \/ RefineReturn
    \/ RefineUnbound

SpecRefine == InitRefine /\ [][NextRefine]_vars

\* the same function on images that are zero except for one pixel
SinglePixelImages(sh) ==
    {[p \in Pixels(sh) |-> IF p = q THEN v ELSE 0] :
        q \in Pixels(sh), v \in 1 .. MaxVal}

InitSingle ==
    /\ shape \in (1 .. BigH) \X (1 .. BigW)
    /\ z \in SinglePixelImages(shape)
    /\ start \in Pixels(shape)
    /\ radius \in 0 .. MaxRadius
    /\ maskClosed \in BOOLEAN
    /\ pc = "refine_init"
    /\ exc = ""
    /\ ret = <<>>
    /\ c_int = 0
    /\ mask = <<>>
    /\ z_tmp = <<>>
    /\ ztmp = <<>>
    /\ c = <<>>
    /\ iters = 0
    /\ DeadUnused /\ RadialUnused /\ PolarUnused

SpecSingle == InitSingle /\ [][NextRefine]_vars

\* ------------------------------------------- refine_beam_position: claims
SinglePixelAt(p) == z[p] > 0 /\ \A q \in DOMAIN z : q # p => z[q] = 0

DiskInside(p, r) ==
    /\ p[1] - r >= 0 /\ p[1] + r <= shape[1] - 1
    /\ p[2] - r >= 0 /\ p[2] + r <= shape[2] - 1

C1_Case == radius >= 1 /\ SinglePixelAt(start) /\ DiskInside(start, radius)

\* C1: on an image that is zero except for a positive pixel p, with start = p
\* and a radius >= 1 whose disk lies inside the image, the centre never leaves
\* p, the while body never runs, nothing is raised, and the value returned is
\* exactly p.
C1_SinglePixel ==
    C1_Case =>
        /\ c \in {<<>>, start}
        /\ iters = 0
        /\ pc # "raised"
        /\ pc = "refine_while" => c_int >= ArrMax(z_tmp)
        /\ pc = "done" => ret = <<FromInt(start[1]), FromInt(start[2])>>

C1_Witness ==
    C1_Case /\ pc = "done" /\ radius >= 2 /\ maskClosed /\ c = start

\* the centre the function is at: start until the first recentring
CurrentCentre == IF c = <<>> THEN start ELSE c

\* C6: whenever the loop condition is evaluated, the region it reads is the
\* image masked by the disk around the current centre.
C6_TestUsesCurrentRegion ==
    pc = "refine_while" =>
        LoopRegion = Times(z, circular_mask(shape, radius, CurrentCentre))

C7_Stuck ==
    /\ pc = "refine_while"
    /\ c # <<>>
    /\ c_int < ArrMax(z_tmp)
    /\ ret = <<>>

\* C7: there is no iteration cap: once the loop test is true after a
\* recentring it stays true, so the loop is never left and nothing is
\* returned.
C7_NeverExits == [][C7_Stuck => C7_Stuck']_vars

\* two equally-maximal pixels in the disk, start on one of them, the rounded
\* centroid darker: the body has run MaxIters times and the test still holds
C7_Witness ==
    /\ C7_Stuck
    /\ iters = MaxIters
    /\ Cardinality(Where(z_tmp, ArrMax(z_tmp))) = 2
    /\ z[start] = ArrMax(z_tmp)
    /\ \A p \in DOMAIN z : z[p] >= 0

\* the rounded centroid of the maximal pixels of the region around start
FirstCentre ==
    LET reg == Times(z, circular_mask(shape, radius, start))
    IN  RoundedCentroid(Where(reg, ArrMax(reg)))

RatAdd(a, b) ==
    IF a.d = 0 \/ b.d = 0 THEN NaN
    ELSE Rat(a.n * b.d + b.n * a.d, a.d * b.d)

RECURSIVE RatSum(_, _)
RatSum(S, f) ==
    IF S = {} THEN FromInt(0)
    ELSE LET p == CHOOSE q \in S : TRUE
         IN  RatAdd(f[p], RatSum(S \ {p}, f))

\* np.mean of the values of a at the pixels S: NaN for an empty S, and NaN
\* as soon as one value is NaN
Mean(a, S) ==
    LET t == RatSum(S, a)
    IN  IF t.d = 0 THEN NaN ELSE Rat(t.n, t.d * Cardinality(S))

\* a slice bound as Python normalises it along an axis of length len
SliceBound(a, len) == IF a < 0 THEN Max(a + len, 0) ELSE Min(a, len)

\* the indices selected by [lo:hi] along an axis of length len
SliceRange(lo, hi, len) ==
    {r \in 0 .. len - 1 : SliceBound(lo, len) <= r /\ r < SliceBound(hi, len)}

\* the pixels of z[i-d:i+d+1, j-d:j+d+1]
Neighbours(sh, p, dd) ==
    SliceRange(p[1] - dd, p[1] + dd + 1, sh[1])
        \X SliceRange(p[2] - dd, p[2] + dd + 1, sh[2])

Branch_default_nan(dv) == IF dv = "average" THEN "average" ELSE "nan"

\* the if / elif / else chain on deadvalue
Branch(dv) ==
    IF dv = "average" THEN "average"
    ELSE IF dv = "nan" THEN "nan"
    ELSE "raise"

\* the array object bound to the parameter z
ArgZ == <<"z">>

\* images whose values follow a linear pattern modulo MaxVal + 1; the
\* constant images are among them
PatternImages(sh) ==
    {[p \in Pixels(sh) |-> (a * p[1] + b * p[2] + c0) % (MaxVal + 1)] :
        a \in 0 .. MaxVal, b \in 0 .. MaxVal, c0 \in 0 .. MaxVal}

SeqsUpTo(S, m) == UNION {[1 .. n -> S] : n \in 0 .. m}

InitDead ==
    /\ shape \in Shapes
    /\ z \in {[p \in Pixels(shape) |-> FromInt(img[p])] :
                 img \in PatternImages(shape)}
    /\ deadpixels \in SeqsUpTo(Pixels(shape), MaxDead)
    /\ deadvalue \in {"average", "nan", "median"}
    /\ d \in 1 .. MaxD
    /\ k = 1
    /\ z0 = z
    /\ pc = "dead_loop"
    /\ exc = ""
    /\ ret = <<>>
    /\ RefineUnused /\ RadialUnused /\ PolarUnused

\* lines 239-242, one iteration
DeadAverageStep ==
    /\ pc = "dead_loop"
    /\ Branch(deadvalue) = "average"
    /\ k <= Len(deadpixels)
    /\ z' = [z EXCEPT ![deadpixels[k]] =
                Mean(z, Neighbours(shape, deadpixels[k], d))]
    /\ k' = k + 1
    /\ UNCHANGED <<shape, pc, exc, ret, deadpixels, deadvalue, d, z0,
                   refineVars, radialVars, polarVars>>

DeadNanStep_swapped ==
    /\ pc = "dead_loop"
    /\ Branch(deadvalue) = "nan"
    /\ k <= Len(deadpixels)
    /\ z' = [p \in DOMAIN z |->
                IF p = <<deadpixels[k][2], deadpixels[k][1]>> THEN NaN
                ELSE z[p]]
    /\ k' = k + 1
    /\ UNCHANGED <<shape, pc, exc, ret, deadpixels, deadvalue, d, z0,
                   refineVars, radialVars, polarVars>>

\* lines 244-246, one iteration
DeadNanStep ==
    /\ pc = "dead_loop"
    /\ Branch(deadvalue) = "nan"
    /\ k <= Len(deadpixels)
    /\ z' = [z EXCEPT ![deadpixels[k]] = NaN]
    /\ k' = k + 1
    /\ UNCHANGED <<shape, pc, exc, ret, deadpixels, deadvalue, d, z0,
                   refineVars, radialVars, polarVars>>

\* lines 247-250
DeadRaise ==
    /\ pc = "dead_loop"
    /\ Branch(deadvalue) = "raise"
    /\ exc' = "NotImplementedError"
    /\ pc' = "raised"
    /\ UNCHANGED <<shape, z, ret, deadVars, refineVars, radialVars, polarVars>>

\* line 252, once the loop of the chosen branch is exhausted
DeadReturn ==
    /\ pc = "dead_loop"
    /\ Branch(deadvalue) \in {"average", "nan"}
    /\ k > Len(deadpixels)
    /\ ret' = ArgZ
    /\ pc' = "done"
    /\ UNCHANGED <<shape, z, exc, deadVars, refineVars, radialVars, polarVars>>

NextDead ==
    \/ DeadAverageStep
    \/ DeadNanStep
    \/ DeadRaise
    \/ DeadReturn

SpecDead == InitDead /\ [][NextDead]_vars

\* ---------------------------------------------------- remove_dead: claims
Listed == {deadpixels[n] : n \in 1 .. Len(deadpixels)}

\* C2: with deadvalue = 'nan' the call never raises, never changes the shape
\* nor a pixel that is not listed, and when it returns every listed pixel is
\* NaN and the value returned is the array that was passed in.
C2_NanExactlyListed ==
    deadvalue = "nan" =>
        /\ pc # "raised"
        /\ DOMAIN z = DOMAIN z0
        /\ \A p \in DOMAIN z0 : p \notin Listed => z[p] = z0[p]
        /\ pc = "done" =>
              /\ \A p \in Listed : z[p] = NaN
              /\ ret = ArgZ

\* a list that names the same pixel twice, and leaves some pixel out
C2_Witness ==
    /\ deadvalue = "nan" /\ pc = "done"
    /\ Len(deadpixels) = 2 /\ deadpixels[1] = deadpixels[2]
    /\ Listed # DOMAIN z

C2_WitnessEmpty == deadvalue = "nan" /\ pc = "done" /\ deadpixels = <<>>

\* C3: with a deadvalue other than 'average' and 'nan' the call raises
\* NotImplementedError, returns nothing, and the array is as it was.
C3_UnknownRaises ==
    deadvalue \notin {"average", "nan", ""} =>
        /\ z = z0
        /\ ret = <<>>
        /\ pc \in {"dead_loop", "raised"}
        /\ pc = "dead_loop" => k = 1 /\ exc = ""
        /\ pc = "raised" => exc = "NotImplementedError"

C3_Witness ==
    /\ deadvalue = "median" /\ pc = "raised"
    /\ exc = "NotImplementedError" /\ Len(deadpixels) = MaxDead

\* the part of the (2d+1) x (2d+1) window centred on p that lies in the array
CentredWindow(sh, p, dd) ==
    {q \in Pixels(sh) : Abs(q[1] - p[1]) <= dd /\ Abs(q[2] - p[2]) <= dd}

\* C9: with deadvalue = 'average' each step replaces the listed pixel, at
\* any in-bounds position, by the mean of the window centred on it (the
\* pixel itself included) as the array stands, and changes nothing else.
C9_WindowMean ==
    [][(pc = "dead_loop" /\ deadvalue = "average" /\ k <= Len(deadpixels))
        => z' = [z EXCEPT ![deadpixels[k]] =
                    Mean(z, CentredWindow(shape, deadpixels[k], d))]]_vars

\* --------------------------------------------------------- radial_average
\* np.sqrt(n).astype(np.int) for an integer n >= 0: the truncated root
ISqrt(n) == CHOOSE r \in 0 .. n : r * r <= n /\ (r + 1) * (r + 1) > n

\* the coordinates of a.ravel(), in row-major order
Ravel(sh) ==
    [n \in 1 .. sh[1] * sh[2] |-> <<(n - 1) \div sh[2], (n - 1) % sh[2]>>]

SeqMax(xs) == CHOOSE v \in {xs[n] : n \in DOMAIN xs} :
                  \A m \in DOMAIN xs : xs[m] <= v

\* np.bincount(xs, wts) after the first n entries have been accumulated
RECURSIVE BinCountUpTo(_, _, _)
BinCountUpTo(xs, wts, n) ==
    IF n = 0 THEN [i \in 0 .. SeqMax(xs) |-> 0]
    ELSE LET prev == BinCountUpTo(xs, wts, n - 1)
         IN  [prev EXCEPT ![xs[n]] = @ + wts[n]]

bincount(xs, wts) == BinCountUpTo(xs, wts, Len(xs))

radial_average_swapped(sh, a, cen) ==
    LET rav == Ravel(sh)
        r == [n \in DOMAIN rav |->
                 ISqrt((rav[n][2] - cen[1]) * (rav[n][2] - cen[1])
                       + (rav[n][1] - cen[2]) * (rav[n][1] - cen[2]))]
        tbin == bincount(r, [n \in DOMAIN rav |-> a[rav[n]]])
        nr == bincount(r, [n \in DOMAIN rav |-> 1])
    IN  [i \in DOMAIN tbin |-> Rat(tbin[i], nr[i])]

\* lines 122-128; cen is <<center[0], center[1]>>
radial_average(sh, a, cen) ==
    LET rav == Ravel(sh)
        r == [n \in DOMAIN rav |->
                 ISqrt((rav[n][2] - cen[2]) * (rav[n][2] - cen[2])
                       + (rav[n][1] - cen[1]) * (rav[n][1] - cen[1]))]
        tbin == bincount(r, [n \in DOMAIN rav |-> a[rav[n]]])
        nr == bincount(r, [n \in DOMAIN rav |-> 1])
    IN  [i \in DOMAIN tbin |-> Rat(tbin[i], nr[i])]

\* the squared distance of pixel p from cen
Dist2(p, cen) ==
    (p[1] - cen[1]) * (p[1] - cen[1]) + (p[2] - cen[2]) * (p[2] - cen[2])

\* the pixels whose distance from cen, truncated, is i
Ring(sh, cen, i) ==
    {p \in Pixels(sh) : i * i <= Dist2(p, cen)
                        /\ Dist2(p, cen) < (i + 1) * (i + 1)}

\* the compiled kernel: the same binned means as the naive path
radialprofile_cy(sh, a, cen) ==
    LET far == CHOOSE i \in 0 .. 2 * (MaxH + MaxW) + 4 :
                   /\ Ring(sh, cen, i) # {}
                   /\ \A p \in Pixels(sh) : Dist2(p, cen) < (i + 1) * (i + 1)
    IN  [i \in 0 .. far |->
            Rat(SumOver(Ring(sh, cen, i), a), Cardinality(Ring(sh, cen, i)))]

InitRadial ==
    /\ shape \in Shapes
    /\ z \in PatternImages(shape)
    /\ center \in (-1 .. MaxH) \X (-1 .. MaxW)
    /\ useCy \in BOOLEAN
    /\ pc = "radial_start"
    /\ exc = ""
    /\ ret = <<>>
    /\ RefineUnused /\ DeadUnused /\ PolarUnused

\* lines 119-120 and 130
RadialCy ==
    /\ pc = "radial_start"
    /\ useCy
    /\ ret' = radialprofile_cy(shape, z, center)
    /\ pc' = "done"
    /\ UNCHANGED <<shape, z, exc, refineVars, deadVars, radialVars, polarVars>>

\* lines 121-130
RadialNaive ==
    /\ pc = "radial_start"
    /\ ~useCy
    /\ ret' = radial_average(shape, z, center)
    /\ pc' = "done"
    /\ UNCHANGED <<shape, z, exc, refineVars, deadVars, radialVars, polarVars>>

NextRadial == RadialCy \/ RadialNaive

SpecRadial == InitRadial /\ [][NextRadial]_vars

\* ------------------------------------------------- radial_average: claims
\* the largest truncated distance of a pixel from center
FarthestRing ==
    CHOOSE i \in 0 .. 2 * (MaxH + MaxW) + 4 :
        /\ Ring(shape, center, i) # {}
        /\ \A j \in i + 1 .. 2 * (MaxH + MaxW) + 5 : Ring(shape, center, j) = {}

\* C4: on the naive path the result has one entry for each i from 0 to the
\* largest truncated distance, entry i is the sum of the pixels at truncated
\* distance i divided by their number, and on an image of constant value v
\* every entry whose bin is not empty is v.
C4_BinMeans ==
    (pc = "done" /\ ~useCy) =>
        /\ DOMAIN ret = 0 .. FarthestRing
        /\ \A i \in 0 .. FarthestRing :
              LET B == Ring(shape, center, i)
              IN  /\ ret[i] = Rat(SumOver(B, z), Cardinality(B))
                  /\ \A v \in 0 .. MaxVal :
                        ((\A p \in DOMAIN z : z[p] = v) /\ B # {})
                            => ret[i] = FromInt(v)

\* a profile with an empty bin and with a bin whose mean is not an integer
C4_Witness ==
    /\ pc = "done" /\ ~useCy
    /\ \E i \in DOMAIN ret : ret[i] = NaN
    /\ \E i \in DOMAIN ret : ret[i].d > 1

C4_WitnessConstant ==
    /\ pc = "done" /\ ~useCy
    /\ \A p \in DOMAIN z : z[p] = MaxVal
    /\ Cardinality(DOMAIN ret) >= 3

\* -------------------------------------------------------- reproject_polar
\* Radii are kept as their squares and angles as the offsets they are the
\* arctan2 of, so that the extrema and the grid are exact.  dr is the
\* fraction dr[1] / dr[2]; dt is left at None.
IsSquare(n) == ISqrt(n) * ISqrt(n) = n

_index_coords_swapped(sh, org) ==
    [p \in Pixels(sh) |-> <<p[2] - org[2], p[1] - org[1]>>]

\* lines 55-65: the offsets <<x, y>> of every pixel from org = <<x0, y0>>
_index_coords(sh, org) ==
    [p \in Pixels(sh) |-> <<p[2] - org[1], p[1] - org[2]>>]

\* lines 82-84: r as its square, theta as the sign of arctan2(x, y)
_cart2polar(xy) ==
    [r2 |-> xy[1] * xy[1] + xy[2] * xy[2],
     sgn |-> IF xy[1] > 0 THEN 1
             ELSE IF xy[1] < 0 THEN -1
             ELSE IF xy[2] >= 0 THEN 0 ELSE 1]

\* whether sqrt(A) - sqrt(B) <= n * a / b, for A >= B >= 0, a, b > 0
RootGapAtMost(A, B, n, a, b) ==
    LET lhs == b * b * (A - B) - n * n * a * a
    IN  lhs <= 0 \/ lhs * lhs <= 4 * n * n * a * a * b * b * B

\* np.int(np.ceil((sqrt(A) - sqrt(B)) / (a / b)))
CeilRootGap(A, B, a, b) ==
    CHOOSE n \in 0 .. 2 * b * (MaxH + MaxW + 4) :
        /\ RootGapAtMost(A, B, n, a, b)
        /\ n > 0 => ~RootGapAtMost(A, B, n - 1, a, b)

SetMax(S) == CHOOSE v \in S : \A u \in S : u <= v

SetMin(S) == CHOOSE v \in S : \A u \in S : v <= u

\* np.linspace(r.min(), r.max(), nr, endpoint=False): an entry is known
\* when it is a rational, which it is when the roots involved are integers
linspace_r(A, B, nr) ==
    [n \in 1 .. nr |->
        IF IsSquare(B) /\ (n = 1 \/ IsSquare(A))
        THEN [known |-> TRUE,
              v |-> Rat(ISqrt(B) * nr + (n - 1) * (ISqrt(A) - ISqrt(B)), nr)]
        ELSE [known |-> FALSE, v |-> NaN]]

\* np.linspace(theta.min(), theta.max(), nt, endpoint=False): for each entry
\* whether it is exactly 0
linspace_theta(smin, smax, nt) ==
    [n \in 1 .. nt |-> smin = 0 /\ (n = 1 \/ smax = 0)]

\* lines 186-194: the grid point (r, theta) back in pixel coordinates, as
\* the <<row, col>> it falls on, when that is an exact integer position
BackProject(r, thetaIsZero, org) ==
    IF r.known /\ r.v = FromInt(0)
    THEN [onPixel |-> TRUE, pos |-> <<org[2], org[1]>>]
    ELSE IF r.known /\ r.v.d = 1 /\ thetaIsZero
    THEN [onPixel |-> TRUE, pos |-> <<org[2] + r.v.n, org[1]>>]
    ELSE [onPixel |-> FALSE, pos |-> <<>>]

\* ndi.map_coordinates(input, coords), order 3, mode 'constant': the spline
\* passes through the samples, so at an integer position inside the array
\* the value is the array's; outside the array it is cval = 0; elsewhere
\* the value is an interpolated one the model does not determine
map_coordinates(input, coords) ==
    [n \in DOMAIN coords |->
        IF ~coords[n].onPixel THEN [known |-> FALSE, v |-> NaN]
        ELSE IF coords[n].pos \in DOMAIN input
        THEN [known |-> TRUE, v |-> FromInt(input[coords[n].pos])]
        ELSE [known |-> TRUE, v |-> FromInt(0)]]

\* np.flipud
flipud(a, sh) == [p \in DOMAIN a |-> a[<<sh[1] - 1 - p[1], p[2]>>]]

\* the origin in use, lines 168-169
OriginOf(sh, org) == IF org = <<>> THEN <<sh[2] \div 2, sh[1] \div 2>> ELSE org

\* lines 172-194: nr, nt and the flattened coordinates
PolarGrid(sh, org0, step) ==
    LET org == OriginOf(sh, org0)
        xy == _index_coords(sh, org)
        pol == [p \in Pixels(sh) |-> _cart2polar(xy[p])]
        A == SetMax({pol[p].r2 : p \in Pixels(sh)})
        B == SetMin({pol[p].r2 : p \in Pixels(sh)})
        nr == CeilRootGap(A, B, step[1], step[2])
        nt == Max(sh[2], sh[1])
        r_i == linspace_r(A, B, nr)
        theta_i == linspace_theta(SetMin({pol[p].sgn : p \in Pixels(sh)}),
                                  SetMax({pol[p].sgn : p \in Pixels(sh)}), nt)
    IN  [nr |-> nr, nt |-> nt, r_i |-> r_i,
         coords |-> [n \in 1 .. Len(r_i) * Len(theta_i) |->
                        BackProject(r_i[((n - 1) \div Len(theta_i)) + 1],
                                    theta_i[((n - 1) % Len(theta_i)) + 1],
                                    org)]]

\* r * v as line 200 computes it
Scale(val, r) ==
    IF val.known /\ r.known
    THEN [known |-> TRUE, v |-> Rat(val.v.n * r.v.n, val.v.d * r.v.d)]
    ELSE [known |-> FALSE, v |-> NaN]

\* lines 165-202
reproject_polar(sh, a, org0, jac, step) ==
    LET data == flipud(a, sh)
        g == PolarGrid(sh, org0, step)
        zi == map_coordinates(a, g.coords)
        output == [q \in (0 .. g.nr - 1) \X (0 .. g.nt - 1) |->
                      zi[q[1] * g.nt + q[2] + 1]]
    IN  [shape |-> <<g.nr, g.nt>>,
         data |-> IF jac
                  THEN [q \in DOMAIN output |->
                           Scale(output[q], g.r_i[q[1] + 1])]
                  ELSE output]

DrChoices == {<<0, 1>>, <<1, 2>>, <<1, 1>>, <<2, 1>>}

InitPolar ==
    /\ shape \in Shapes
    /\ z \in PatternImages(shape)
    /\ origin \in {<<>>} \cup ((-1 .. MaxW) \X (-1 .. MaxH))
    /\ jacobian \in BOOLEAN
    /\ dr \in DrChoices
    /\ pc = "polar_start"
    /\ exc = ""
    /\ ret = <<>>
    /\ RefineUnused /\ DeadUnused /\ RadialUnused

\* lines 165-202 with a spacing dr > 0
PolarReturn ==
    /\ pc = "polar_start"
    /\ dr[1] > 0
    /\ ret' = reproject_polar(shape, z, origin, jacobian, dr)
    /\ pc' = "done"
    /\ UNCHANGED <<shape, z, exc, refineVars, deadVars, radialVars, polarVars>>

\* line 175 with dr = 0: the quotient is inf, or nan when r.max() = r.min(),
\* and np.int refuses it
PolarRaise ==
    /\ pc = "polar_start"
    /\ dr[1] = 0
    /\ exc' = IF \A p, q \in Pixels(shape) :
                    _cart2polar(_index_coords(shape,
                                              OriginOf(shape, origin))[p]).r2
                    = _cart2polar(_index_coords(shape,
                                                OriginOf(shape, origin))[q]).r2
              THEN "ValueError" ELSE "OverflowError"
    /\ pc' = "raised"
    /\ UNCHANGED <<shape, z, ret, refineVars, deadVars, radialVars, polarVars>>

NextPolar == PolarReturn \/ PolarRaise

SpecPolar == InitPolar /\ [][NextPolar]_vars

\* ------------------------------------------------ reproject_polar: claims
\* the squared distance of pixel <<row, col>> from the origin <<x0, y0>>
OriginDist2(p) ==
    LET org == IF origin = <<>> THEN <<shape[2] \div 2, shape[1] \div 2>>
               ELSE origin
    IN  (p[2] - org[1]) * (p[2] - org[1]) + (p[1] - org[2]) * (p[1] - org[2])

\* whether n radial steps of dr span every difference of pixel distances
SpansRadii(n) ==
    \A p, q \in Pixels(shape) :
        RootGapAtMost(OriginDist2(p), OriginDist2(q), n, dr[1], dr[2])

\* C5: with a spacing dr > 0 and dt not given the call does not raise and
\* returns an array of shape (nr, nt), nr the least integer with
\* nr * dr >= r_max - r_min and nt = max(height, width); on a 1 x 1 image
\* that is the shape (0, 1).
C5_Shape ==
    /\ dr # <<>> /\ dr[1] > 0 => pc # "raised"
    /\ pc = "done" =>
          LET nrc == CHOOSE n \in 0 .. 4 * (MaxH + MaxW + 4) :
                         SpansRadii(n) /\ \A m \in 0 .. n - 1 : ~SpansRadii(m)
              ntc == IF shape[1] > shape[2] THEN shape[1] ELSE shape[2]
          IN  /\ ret.shape = <<nrc, ntc>>
              /\ DOMAIN ret.data = (0 .. nrc - 1) \X (0 .. ntc - 1)
              /\ shape = <<1, 1>> => ret.shape = <<0, 1>>

C5_Witness1x1 == pc = "done" /\ shape = <<1, 1>> /\ ret.shape = <<0, 1>>

\* a wide image, half-pixel radial steps, an origin off the diagonal
C5_WitnessWide ==
    /\ pc = "done" /\ shape[1] < shape[2] /\ dr = <<1, 2>>
    /\ origin # <<>> /\ origin[1] # origin[2]
    /\ ret.shape[1] >= 3 /\ ret.shape[2] = shape[2]

\* C8: without the jacobian, every grid point that falls exactly on a pixel
\* of the image gets the value the vertically flipped image has there.
C8_SamplesFlipped ==
    (pc = "done" /\ ~jacobian) =>
        LET g == PolarGrid(shape, origin, dr)
        IN  \A n \in DOMAIN g.coords :
                (g.coords[n].onPixel /\ g.coords[n].pos \in Pixels(shape)) =>
                    ret.data[<<(n - 1) \div g.nt, (n - 1) % g.nt>>]
                        = [known |-> TRUE,
                           v |-> FromInt(flipud(z, shape)[g.coords[n].pos])]

====
